---- MODULE Spec2Model ----
(***************************************************************************)
(* A model of rgwml_cli.c: main, execute_mysql_query (the ResultSet        *)
(* builder), free_query_result (the teardown), safe_strncpy and            *)
(* print_query_result (the renderer).                                      *)
(*                                                                         *)
(* Memory is modelled explicitly.  A heap block is a pair <<array, index>>:*)
(* <<"rec", -1>> is the QueryResult record, <<a, -1>> the array a itself,  *)
(* and <<a, k>> the string strdup'ed into slot k of array a.  A slot of an *)
(* array is "uninit" after malloc, "null" after a failed strdup and "set"  *)
(* after a successful one.  Characters are integers: 0 is the terminator,  *)
(* 1 is '.', 2 3 4 are 'N' 'U' 'L', 5 is an uninitialised non-zero byte,   *)
(* 9 is a header letter, and the text of a driver value is made of         *)
(* numbers >= 100 that identify the cell and the position.                 *)
(***************************************************************************)
EXTENDS Integers, Sequences, FiniteSets, TLC

\* ------------------------------------------------------------- bounds
\* Sizes of the result sets the builder runs are explored with.
MaxRows == 2
MaxCols == 3
\* Sizes of the result sets the renderer runs are explored with.
RMaxRows == 11
RMaxCols == 8
\* Longest header and longest driver value.
MaxHdrLen == 4
MaxCellLen == 5
\* Bytes of stack modelled behind the renderer's cell buffer.
Slack == 3

\* ------------------------------------------------------------- characters
NUL == 0
DOT == 1
GARBAGE == 5
HDRCHAR == 9
NULLTEXT == <<2, 3, 4, 4>>
Ellipsis == <<DOT, DOT, DOT>>

EXIT_SUCCESS == 0
EXIT_FAILURE == 1
\* The status of a process killed by a signal (SIGSEGV, SIGABRT): not 0.
EXIT_SIGNAL == 134

Min(a, b) == IF a < b THEN a ELSE b

VARIABLES
    pc,          \* position of the single thread of control
    exitCode,    \* the process exit status, -1 while running
    mainResult,  \* main's `result`: "unset", "null" or "ptr"
    result,      \* the QueryResult record and the arrays it points to
    heap,        \* [live, freed, dfree]: blocks live, freed, freed twice
    ub,          \* undefined behaviour seen in free_query_result
    driver,      \* what the database driver returned for the query
    i,           \* the loop counter `i` of the function that is running
    row_index,   \* execute_mysql_query's row_index
    bufferSize,  \* print_query_result's bufferSize
    mem,         \* the bytes of `buffer` and of the Slack bytes behind it
    table,       \* the rows written to the libfort table so far
    rub          \* undefined behaviour seen in print_query_result

vars == <<pc, exitCode, mainResult, result, heap, ub, driver, i, row_index,
          bufferSize, mem, table, rub>>

buildVars == <<result, heap, ub, driver, row_index>>
renderVars == <<bufferSize, mem, table, rub>>

\* ------------------------------------------------------------- driver
\* The driver's answer: counts, column names and type tags, and per row one
\* nullable text per column.
ArrayNames == {"rows", "headers", "mysql_types", "c_types"}

FieldTags == <<"MYSQL_TYPE_LONG", "MYSQL_TYPE_VAR_STRING", "MYSQL_TYPE_NULL", "MYSQL_TYPE_OTHER">>

\* fields[c].name: a header of a length that varies with the column.
FieldName(d, c) == [p \in 1..((d.hdrSeed + c) % (MaxHdrLen + 1)) |-> HDRCHAR]
\* fields[c].type
FieldType(d, c) == FieldTags[(c % Len(FieldTags)) + 1]
\* row[c] of the r-th fetched row: absent (SQL NULL) or a text of a length
\* that varies with the cell.
DriverLen(d, r, c) == (d.cellSeed + r * d.cols + c) % d.cellMod
DriverVal(d, r, c) ==
    IF <<r, c>> \in d.nulls
    THEN [present |-> FALSE, text |-> <<>>]
    ELSE [present |-> TRUE,
          text |-> [p \in 1..DriverLen(d, r, c) |-> 100 * (r * d.cols + c + 1) + p]]

NullCandidates(rows, cols) ==
    IF rows = 0 THEN {} ELSE {<<0, 0>>, <<0, cols - 1>>, <<rows - 1, cols - 1>>}

Answer(rc, h, s, m, n) ==
    [rows |-> rc[1], cols |-> rc[2], hdrSeed |-> h, cellSeed |-> s, cellMod |-> m,
     nulls |-> n]

\* The answers the builder runs are explored with.
BuildDrivers ==
    UNION { { Answer(rc, h, s, MaxCellLen + 1, n) :
                h \in {1, MaxHdrLen}, s \in {0, MaxCellLen},
                n \in SUBSET NullCandidates(rc[1], rc[2]) } :
            rc \in (0..MaxRows) \X (1..MaxCols) }

\* The answers the renderer runs are explored with: small tables with every
\* pattern of header and cell lengths, and tables of every size up to
\* RMaxRows x RMaxCols with cells of length 0 and 1.
RenderDrivers ==
    UNION { { Answer(rc, h, s, MaxCellLen + 1, n) :
                h \in 0..MaxHdrLen, s \in 0..MaxCellLen,
                n \in {{}, NullCandidates(rc[1], rc[2]) \cap {<<0, 0>>}} } :
            rc \in (0..MaxRows) \X (1..MaxCols) }
    \cup { Answer(rc, MaxHdrLen, 0, 2, {}) : rc \in (0..RMaxRows) \X (1..RMaxCols) }

NoDriver == [rows |-> 0, cols |-> 0, hdrSeed |-> 0, cellSeed |-> 0, cellMod |-> 1, nulls |-> {}]

\* ------------------------------------------------------------- TypeMapper
mysql_type_to_c_type(type) ==
    CASE type = "MYSQL_TYPE_DECIMAL"    -> [mysql_type |-> "DECIMAL", c_type |-> "double"]
      [] type = "MYSQL_TYPE_NEWDECIMAL" -> [mysql_type |-> "DECIMAL", c_type |-> "double"]
      [] type = "MYSQL_TYPE_TINY"       -> [mysql_type |-> "TINYINT", c_type |-> "int8_t"]
      [] type = "MYSQL_TYPE_SHORT"      -> [mysql_type |-> "SMALLINT", c_type |-> "int16_t"]
      [] type = "MYSQL_TYPE_LONG"       -> [mysql_type |-> "INT", c_type |-> "int32_t"]
      [] type = "MYSQL_TYPE_FLOAT"      -> [mysql_type |-> "FLOAT", c_type |-> "float"]
      [] type = "MYSQL_TYPE_DOUBLE"     -> [mysql_type |-> "DOUBLE", c_type |-> "double"]
      [] type = "MYSQL_TYPE_NULL"       -> [mysql_type |-> "NULL", c_type |-> "void"]
      [] type = "MYSQL_TYPE_TIMESTAMP"  -> [mysql_type |-> "TIMESTAMP", c_type |-> "char*"]
      [] type = "MYSQL_TYPE_LONGLONG"   -> [mysql_type |-> "BIGINT", c_type |-> "int64_t"]
      [] type = "MYSQL_TYPE_INT24"      -> [mysql_type |-> "MEDIUMINT", c_type |-> "int32_t"]
      [] type = "MYSQL_TYPE_DATE"       -> [mysql_type |-> "DATE", c_type |-> "char*"]
      [] type = "MYSQL_TYPE_TIME"       -> [mysql_type |-> "TIME", c_type |-> "char*"]
      [] type = "MYSQL_TYPE_DATETIME"   -> [mysql_type |-> "DATETIME", c_type |-> "char*"]
      [] type = "MYSQL_TYPE_YEAR"       -> [mysql_type |-> "YEAR", c_type |-> "int"]
      [] type = "MYSQL_TYPE_NEWDATE"    -> [mysql_type |-> "NEWDATE", c_type |-> "char*"]
      [] type = "MYSQL_TYPE_VARCHAR"    -> [mysql_type |-> "VARCHAR", c_type |-> "char*"]
      [] type = "MYSQL_TYPE_BIT"        -> [mysql_type |-> "BIT", c_type |-> "uint8_t"]
      [] type = "MYSQL_TYPE_JSON"       -> [mysql_type |-> "JSON", c_type |-> "char*"]
      [] type = "MYSQL_TYPE_ENUM"       -> [mysql_type |-> "ENUM", c_type |-> "char*"]
      [] type = "MYSQL_TYPE_SET"        -> [mysql_type |-> "SET", c_type |-> "char*"]
      [] type = "MYSQL_TYPE_TINY_BLOB"  -> [mysql_type |-> "TINYBLOB", c_type |-> "char*"]
      [] type = "MYSQL_TYPE_MEDIUM_BLOB" -> [mysql_type |-> "MEDIUMBLOB", c_type |-> "char*"]
      [] type = "MYSQL_TYPE_LONG_BLOB"  -> [mysql_type |-> "LONGBLOB", c_type |-> "char*"]
      [] type = "MYSQL_TYPE_BLOB"       -> [mysql_type |-> "BLOB", c_type |-> "char*"]
      [] type = "MYSQL_TYPE_VAR_STRING" -> [mysql_type |-> "STRING", c_type |-> "char*"]
      [] type = "MYSQL_TYPE_STRING"     -> [mysql_type |-> "STRING", c_type |-> "char*"]
      [] type = "MYSQL_TYPE_GEOMETRY"   -> [mysql_type |-> "GEOMETRY", c_type |-> "char*"]
      [] OTHER                          -> [mysql_type |-> "UNKNOWN", c_type |-> "void"]

\* ------------------------------------------------------------- the heap
EmptyHeap == [live |-> {}, freed |-> {}, dfree |-> {}]

\* malloc / strdup succeeded: block b is live.
Allocate(h, b) == [h EXCEPT !.live = @ \cup {b}]
AllocateAll(h, bs) == [h EXCEPT !.live = @ \cup bs]

\* ------------------------------------------------------------- slots
Uninit == [st |-> "uninit", str |-> <<>>]
NullSlot == [st |-> "null", str |-> <<>>]
SetSlot(s) == [st |-> "set", str |-> s]

\* strdup(src): a copy of src up to its terminator.
RECURSIVE strdup(_)
strdup(src) ==
    IF src = <<>> \/ Head(src) = NUL THEN <<>>
    ELSE <<Head(src)>> \o strdup(Tail(src))

NoResult ==
    [rows_count |-> 0, cols_count |-> 0,
     ptr |-> [a \in ArrayNames |-> "unset"],
     elems |-> [a \in ArrayNames |-> <<>>]]

\* ------------------------------------------------------------- teardown
\* The order in which free_query_result reads the slots: every cell (lines
\* 20-22), then per column its header, its mysql type and its c type (lines
\* 23-27).
ColReads(cols) ==
    [k \in 1..(3 * cols) |->
        <<(<<"headers", "mysql_types", "c_types">>)[((k - 1) % 3) + 1], (k - 1) \div 3>>]

SlotReads(res) ==
    [k \in 1..(res.rows_count * res.cols_count) |-> <<"rows", k - 1>>]
        \o ColReads(res.cols_count)

\* What free(result->a[k]) meets for the read rd = <<a, k>>: the array a is
\* NULL ("nullarray"), or the slot is "set", "null" or "uninit".
SlotState(res, rd) ==
    IF res.ptr[rd[1]] = "null" THEN "nullarray" ELSE res.elems[rd[1]][rd[2]].st

\* The read that ends the process: an index into a NULL array, or the free
\* of an uninitialised slot that holds a pointer that is no heap block (g =
\* "wild").  g says what uninitialised slots hold: zero bytes ("zero"), such
\* a pointer ("wild"), or the address of the block `target` in the first
\* such slot and zero bytes in the others ("alias").
FatalRead(res, rd, g) ==
    \/ SlotState(res, rd) = "nullarray"
    \/ SlotState(res, rd) = "uninit" /\ g = "wild"

\* The index of the first fatal read, or one more than the number of reads.
StopIndex(res, reads, g) ==
    LET bad == {k \in DOMAIN reads : FatalRead(res, reads[k], g)}
    IN IF bad = {} THEN Len(reads) + 1 ELSE CHOOSE k \in bad : \A j \in bad : k <= j

\* The heap after free() was called once on every block of `once` and a
\* second time on every block of `twice`.
ReleaseAll(h, once, twice) ==
    [live |-> h.live \ once,
     freed |-> h.freed \cup (once \cap h.live),
     dfree |-> h.dfree \cup (once \ h.live) \cup twice]

\* free_query_result(result): the slots in order up to the first fatal read,
\* then, when none was fatal, the four arrays (free(NULL) does nothing) and
\* the record.
free_query_result(res, h, g, target) ==
    LET reads == SlotReads(res)
        stop == StopIndex(res, reads, g)
        crashed == stop <= Len(reads)
        unassigned == {k \in DOMAIN reads : k <= stop /\ SlotState(res, reads[k]) = "uninit"}
        slots == {reads[k] : k \in {j \in DOMAIN reads :
                                        j < stop /\ SlotState(res, reads[j]) = "set"}}
        arrays == IF crashed THEN {}
                  ELSE {<<a, -1>> : a \in {x \in ArrayNames : res.ptr[x] = "ok"}}
                           \cup {<<"rec", -1>>}
        alias == IF g = "alias" /\ unassigned # {} THEN {target} ELSE {}
    IN [heap |-> ReleaseAll(h, slots \cup arrays \cup alias, (slots \cup arrays) \cap alias),
        readUnassigned |-> unassigned # {},
        nullDeref |-> crashed /\ SlotState(res, reads[stop]) = "nullarray",
        crashed |-> crashed]

GarbageKinds == {"zero", "wild", "alias"}
\* The blocks an uninitialised slot can happen to point to.
AliasTargets(h) == h.live \ {<<"rec", -1>>}

NoUb == [cause |-> "none", readUnassigned |-> FALSE, nullDeref |-> FALSE]

\* ------------------------------------------------------------- main, part 1
Exit(code) == pc' = "done" /\ exitCode' = code

\* main, lines 349-353: the argument count.
MainArgs ==
    /\ pc = "start"
    /\ \E argc \in {2, 3} :
        IF argc # 3
        THEN Exit(EXIT_FAILURE)
        ELSE pc' = "read_config" /\ UNCHANGED exitCode
    /\ UNCHANGED <<mainResult, i>>
    /\ UNCHANGED buildVars /\ UNCHANGED renderVars

\* main, lines 359-363: read_file returns the content or NULL.
MainReadConfig ==
    /\ pc = "read_config"
    /\ \E config_content \in {"null", "ptr"} :
        IF config_content = "null"
        THEN Exit(EXIT_FAILURE)
        ELSE pc' = "parse" /\ UNCHANGED exitCode
    /\ UNCHANGED <<mainResult, i>>
    /\ UNCHANGED buildVars /\ UNCHANGED renderVars

\* main, lines 365-370: cJSON_Parse returns the document or NULL.
MainParse ==
    /\ pc = "parse"
    /\ \E config_json \in {"null", "ptr"} :
        IF config_json = "null"
        THEN Exit(EXIT_FAILURE)
        ELSE pc' = "preset" /\ UNCHANGED exitCode
    /\ UNCHANGED <<mainResult, i>>
    /\ UNCHANGED buildVars /\ UNCHANGED renderVars

\* main, lines 372-378: get_db_preset returns the preset or NULL.
MainPreset ==
    /\ pc = "preset"
    /\ \E preset \in {"null", "ptr"} :
        IF preset = "null"
        THEN Exit(EXIT_FAILURE)
        ELSE pc' = "exec_open" /\ UNCHANGED exitCode
    /\ UNCHANGED <<mainResult, i>>
    /\ UNCHANGED buildVars /\ UNCHANGED renderVars

\* ------------------------------------------------------------- the builder
\* `return NULL;` of execute_mysql_query, received by main at line 385.
ReturnNull == pc' = "main_result" /\ mainResult' = "null" /\ UNCHANGED exitCode

\* The process dies of a signal.
Crash == pc' = "crashed" /\ exitCode' = EXIT_SIGNAL /\ UNCHANGED mainResult

\* free_query_result(result) on a failure path of the builder, then
\* mysql_free_result, mysql_close and return NULL.
Rollback(res, h, cause) ==
    \E g \in GarbageKinds :
      \E target \in (IF g = "alias" THEN AliasTargets(h) ELSE {<<"none", -1>>}) :
        LET o == free_query_result(res, h, g, target) IN
        /\ result' = res
        /\ heap' = o.heap
        /\ ub' = [cause |-> cause, readUnassigned |-> o.readUnassigned,
                  nullDeref |-> o.nullDeref]
        /\ IF o.crashed THEN Crash ELSE ReturnNull

\* execute_mysql_query, lines 141-167: mysql_init, mysql_real_connect,
\* mysql_query, mysql_store_result; on success the counts and the fields.
ExecOpen ==
    /\ pc = "exec_open"
    /\ \E outcome \in {"init_failed", "connect_failed", "query_failed", "store_failed", "ok"} :
        IF outcome # "ok"
        THEN ReturnNull /\ UNCHANGED driver
        ELSE /\ \E d \in BuildDrivers : driver' = d
             /\ pc' = "alloc_rec"
             /\ UNCHANGED <<exitCode, mainResult>>
    /\ UNCHANGED <<result, heap, ub, row_index, i>>
    /\ UNCHANGED renderVars

\* execute_mysql_query, lines 169-177: the record.
ExecAllocRecord ==
    /\ pc = "alloc_rec"
    /\ \E ok \in BOOLEAN :
        IF ok
        THEN /\ heap' = Allocate(heap, <<"rec", -1>>)
             /\ result' = [NoResult EXCEPT !.rows_count = driver.rows,
                                           !.cols_count = driver.cols]
             /\ pc' = "alloc_arrays"
             /\ UNCHANGED <<exitCode, mainResult>>
        ELSE ReturnNull /\ UNCHANGED <<heap, result>>
    /\ UNCHANGED <<ub, driver, row_index, i>>
    /\ UNCHANGED renderVars

\* The number of slots of each array (lines 178-181).
ArraySize(res, a) ==
    IF a = "rows" THEN res.rows_count * res.cols_count ELSE res.cols_count

\* execute_mysql_query, lines 178-189: the four arrays, every malloc made
\* before the one test of all four.
ExecAllocArrays ==
    /\ pc = "alloc_arrays"
    /\ \E okset \in SUBSET ArrayNames :
        LET res == [result EXCEPT
                      !.ptr = [a \in ArrayNames |-> IF a \in okset THEN "ok" ELSE "null"],
                      !.elems = [a \in ArrayNames |->
                                   IF a \in okset
                                   THEN [k \in 0..(ArraySize(result, a) - 1) |-> Uninit]
                                   ELSE <<>>]]
            h == AllocateAll(heap, {<<a, -1>> : a \in okset})
        IN IF okset # ArrayNames
           THEN Rollback(res, h, "arrays") /\ UNCHANGED i
           ELSE /\ result' = res
                /\ heap' = h
                /\ pc' = "cols"
                /\ i' = 0
                /\ UNCHANGED <<exitCode, mainResult, ub>>
    /\ UNCHANGED <<driver, row_index>>
    /\ UNCHANGED renderVars

\* execute_mysql_query, lines 191-203 and 205: one column.
ExecColumn ==
    /\ pc = "cols"
    /\ i < result.cols_count
    /\ \E oks \in SUBSET {"headers", "mysql_types", "c_types"} :
        LET mapping == mysql_type_to_c_type(FieldType(driver, i))
            val(a) == CASE a = "headers" -> strdup(FieldName(driver, i))
                        [] a = "mysql_types" -> mapping.mysql_type
                        [] OTHER -> mapping.c_type
            put(e, a) == [e EXCEPT ![a][i] = IF a \in oks THEN SetSlot(val(a)) ELSE NullSlot]
            res == [result EXCEPT
                      !.elems = put(put(put(@, "headers"), "mysql_types"), "c_types")]
            h == AllocateAll(heap, {<<a, i>> : a \in oks})
        IN IF Cardinality(oks) # 3
           THEN Rollback(res, h, "column") /\ UNCHANGED <<i, row_index>>
           ELSE /\ result' = res
                /\ heap' = h
                /\ i' = i + 1
                /\ IF i + 1 < result.cols_count
                   THEN pc' = "cols" /\ UNCHANGED row_index
                   ELSE pc' = "fetch" /\ row_index' = 0
                /\ UNCHANGED <<exitCode, mainResult, ub>>
    /\ UNCHANGED driver
    /\ UNCHANGED renderVars

\* execute_mysql_query, lines 206 and 224-227: mysql_fetch_row yields the
\* next stored row, or NULL after the last one and the result is returned.
ExecFetchRow ==
    /\ pc = "fetch"
    /\ IF row_index < driver.rows
       THEN pc' = "cell" /\ i' = 0 /\ UNCHANGED mainResult
       ELSE pc' = "main_result" /\ mainResult' = "ptr" /\ UNCHANGED i
    /\ UNCHANGED <<exitCode, result, heap, ub, driver, row_index>>
    /\ UNCHANGED renderVars

CellIndexNoStride(r, c, cols) == r + c
\* The slot of row r, column c (lines 209, 211, 213).
CellIndex(r, c, cols) == r * cols + c

\* execute_mysql_query, lines 207-221: one cell.
ExecCell ==
    /\ pc = "cell"
    /\ \E ok \in BOOLEAN :
        LET v == DriverVal(driver, row_index, i)
            src == IF v.present THEN v.text ELSE NULLTEXT
            k == CellIndex(row_index, i, result.cols_count)
            res == [result EXCEPT !.elems["rows"][k] =
                        IF ok THEN SetSlot(strdup(src)) ELSE NullSlot]
            h == IF ok THEN Allocate(heap, <<"rows", k>>) ELSE heap
        IN IF ~ok
           THEN Rollback(res, h, "cell") /\ UNCHANGED <<i, row_index>>
           ELSE /\ result' = res
                /\ heap' = h
                /\ IF i + 1 < result.cols_count
                   THEN pc' = "cell" /\ i' = i + 1 /\ UNCHANGED row_index
                   ELSE pc' = "fetch" /\ i' = i + 1 /\ row_index' = row_index + 1
                /\ UNCHANGED <<exitCode, mainResult, ub>>
    /\ UNCHANGED driver
    /\ UNCHANGED renderVars

\* ------------------------------------------------------------- main, part 2
\* main, lines 385-391: render and release the result, or report.
MainResult ==
    /\ pc = "main_result"
    /\ pc' = IF mainResult = "ptr" THEN "print_headers" ELSE "cleanup"
    /\ UNCHANGED <<exitCode, mainResult, i>>
    /\ UNCHANGED buildVars /\ UNCHANGED renderVars

\* ------------------------------------------------------------- the renderer
\* size_t is modelled 31 bits wide (the model checker's integers are 32-bit).
SIZE_MAX == 2147483647
\* a - b in size_t arithmetic: it wraps below zero.
SizeSub(a, b) == IF a >= b THEN a - b ELSE SIZE_MAX - (b - a) + 1

\* The index of the first terminator in memory m, or -1.
FirstNul(m) ==
    LET zs == {x \in DOMAIN m : m[x] = NUL}
    IN IF zs = {} THEN -1 ELSE CHOOSE x \in zs : \A y \in zs : x <= y

\* The C string that starts at the buffer: the bytes before the terminator.
CString(m) == [p \in 1..FirstNul(m) |-> m[p - 1]]

\* strncpy(dest, src, k): k bytes written, src and then terminators.
strncpy(m, src, k) ==
    [x \in DOMAIN m |->
        IF x < k THEN (IF x < Len(src) THEN src[x + 1] ELSE NUL) ELSE m[x]]

\* strcat(dest, "..."): three dots and a terminator from the first terminator.
strcat3(m, z) ==
    [x \in DOMAIN m |->
        IF x >= z /\ x < z + 3 THEN DOT ELSE IF x = z + 3 THEN NUL ELSE m[x]]

MemSize(m) == Cardinality(DOMAIN m)

\* The count of line 233, n - 3 in size_t arithmetic.
TruncCount(n) == SizeSub(n, 3)

\* safe_strncpy(buffer, src, n) on memory m whose first `size` bytes are the
\* buffer.  oob: a byte behind the buffer was written.  wrap: n - 3 wrapped.
\* crashed: the bytes touched leave the modelled memory.
safe_strncpy(m, src, n, size) ==
    IF Len(src) > n
    THEN LET k == TruncCount(n)
             m1 == strncpy(m, src, k)
             z == FirstNul(m1)
         IN IF k > MemSize(m)
            THEN [mem |-> m, oob |-> TRUE, wrap |-> n < 3, crashed |-> TRUE]
            ELSE IF z < 0 \/ z + 3 >= MemSize(m)
            THEN [mem |-> m1, oob |-> TRUE, wrap |-> FALSE, crashed |-> TRUE]
            ELSE [mem |-> strcat3(m1, z), oob |-> z + 3 >= size \/ k > size,
                  wrap |-> FALSE, crashed |-> FALSE]
    ELSE [mem |-> [strncpy(m, src, n) EXCEPT ![n] = NUL],
          oob |-> FALSE, wrap |-> FALSE, crashed |-> FALSE]

\* The columns of the first loop of a row (lines 272, 290, 305).
HeadCols(cols) == [k \in 1..Min(3, cols) |-> k - 1]

TailColsFrom3(cols) == IF cols > 3 THEN [k \in 1..4 |-> cols - 4 + k - 1] ELSE <<>>
\* The columns of the last loop of a row (lines 278-282, 296-300, 312-317).
TailCols(cols) == IF cols > 4 THEN [k \in 1..4 |-> cols - 4 + k - 1] ELSE <<>>

\* Line 267.
hidden_columns(cols) == IF cols > 7 THEN cols - 7 ELSE 0

\* Lines 253-263: one more than the longest displayed header, at least 2.
RECURSIVE MaxHeader(_, _, _)
MaxHeader(res, cs, acc) ==
    IF cs = <<>> THEN acc
    ELSE MaxHeader(res, Tail(cs),
                   IF Len(res.elems["headers"][Head(cs)].str) > acc
                   THEN Len(res.elems["headers"][Head(cs)].str) ELSE acc)

BufferSize(res) ==
    MaxHeader(res, TailCols(res.cols_count),
              MaxHeader(res, HeadCols(res.cols_count), 1)) + 1

\* What ft_u8write receives: one cell of the table.
Cell(kind, row, col, n, text) ==
    [kind |-> kind, row |-> row, col |-> col, n |-> n, text |-> text]
DotsCell(row) == Cell("dots", row, -1, 0, Ellipsis)

\* Lines 272-283: the header row; the marker holds hidden_columns.
HeaderRow(res) ==
    LET c == res.cols_count
        h(j) == Cell("header", -1, j, 0, res.elems["headers"][j].str)
    IN [k \in 1..Len(HeadCols(c)) |-> h(HeadCols(c)[k])]
       \o (IF hidden_columns(c) > 0
           THEN <<Cell("marker", -1, -1, hidden_columns(c), <<>>)>> ELSE <<>>)
       \o [k \in 1..Len(TailCols(c)) |-> h(TailCols(c)[k])]

\* Lines 290-301: the row of "...".
EllipsisRow(res) ==
    LET c == res.cols_count
    IN [k \in 1..Len(HeadCols(c)) |-> Cell("dots", -2, HeadCols(c)[k], 0, Ellipsis)]
       \o (IF hidden_columns(c) > 0 THEN <<DotsCell(-2)>> ELSE <<>>)
       \o [k \in 1..Len(TailCols(c)) |-> Cell("dots", -2, TailCols(c)[k], 0, Ellipsis)]

\* Lines 305-308 and 313-316: the cells of row r in the columns cs, each
\* copied through the one buffer and then written to the table.
RECURSIVE RenderCells(_, _, _, _, _)
RenderCells(acc, res, size, r, cs) ==
    IF cs = <<>> \/ acc.crashed THEN acc
    ELSE LET j == Head(cs)
             o == safe_strncpy(acc.mem, res.elems["rows"][r * res.cols_count + j].str,
                               size - 1, size)
         IN RenderCells(
                [mem |-> o.mem,
                 cells |-> IF o.crashed THEN acc.cells
                           ELSE Append(acc.cells, Cell("data", r, j, 0, CString(o.mem))),
                 oob |-> acc.oob \/ o.oob,
                 wrap |-> acc.wrap \/ o.wrap,
                 crashed |-> o.crashed],
                res, size, r, Tail(cs))

\* Lines 305-318: one data row.
DataRow(res, m, size, r) ==
    LET c == res.cols_count
        head == RenderCells([mem |-> m, cells |-> <<>>, oob |-> FALSE, wrap |-> FALSE,
                             crashed |-> FALSE], res, size, r, HeadCols(c))
        mid == IF hidden_columns(c) > 0 /\ ~head.crashed
               THEN [head EXCEPT !.cells = Append(@, DotsCell(r))] ELSE head
    IN RenderCells(mid, res, size, r, TailCols(c))

rows_to_show == 5

CollapseAbove9(rows) == rows > 9
\* Line 288: more than 10 rows are collapsed.
Collapse(rows) == rows > 10

\* print_query_result, lines 247-283: the buffer and the header row.  The
\* bytes of the buffer and behind it are not initialised: they are z
\* non-zero bytes followed by zero bytes, for any z.
PrintHeaders ==
    /\ pc = "print_headers"
    /\ bufferSize' = BufferSize(result)
    /\ \E z \in 0..(BufferSize(result) + Slack) :
        mem' = [x \in 0..(BufferSize(result) + Slack - 1) |->
                    IF x < z THEN GARBAGE ELSE NUL]
    /\ table' = <<[tag |-> -1, cells |-> HeaderRow(result)]>>
    /\ i' = 0
    /\ pc' = "print_rows"
    /\ UNCHANGED <<exitCode, mainResult, rub>>
    /\ UNCHANGED buildVars

\* print_query_result, lines 287-319: one iteration of the row loop.  A
\* write behind the buffer may or may not end the process.
PrintRow ==
    /\ pc = "print_rows"
    /\ i < result.rows_count
    /\ LET dots == Collapse(result.rows_count) /\ i = rows_to_show
           r == IF dots THEN result.rows_count - rows_to_show ELSE i
           o == DataRow(result, mem, bufferSize, r)
           pre == IF dots THEN <<[tag |-> -2, cells |-> EllipsisRow(result)]>> ELSE <<>>
       IN /\ mem' = o.mem
          /\ rub' = [oob |-> rub.oob \/ o.oob, wrap |-> rub.wrap \/ o.wrap]
          /\ \E dies \in (IF o.crashed THEN {TRUE} ELSE IF o.oob THEN BOOLEAN ELSE {FALSE}) :
               IF dies
               THEN Crash /\ table' = table \o pre /\ UNCHANGED i
               ELSE /\ table' = (table \o pre) \o <<[tag |-> r, cells |-> o.cells]>>
                    /\ i' = r + 1
                    /\ pc' = "print_rows"
                    /\ UNCHANGED <<exitCode, mainResult>>
    /\ UNCHANGED bufferSize
    /\ UNCHANGED buildVars

\* print_query_result, lines 321-345: the table and the summary are printed.
PrintSummary ==
    /\ pc = "print_rows"
    /\ i >= result.rows_count
    /\ pc' = "free"
    /\ UNCHANGED <<exitCode, mainResult, i>>
    /\ UNCHANGED buildVars /\ UNCHANGED renderVars

\* ------------------------------------------------------------- main, part 3
\* main, line 388: free_query_result(result) after rendering.
MainFree ==
    /\ pc = "free"
    /\ LET o == free_query_result(result, heap, "zero", <<"none", -1>>) IN
        /\ heap' = o.heap
        /\ ub' = [cause |-> "main", readUnassigned |-> o.readUnassigned,
                  nullDeref |-> o.nullDeref]
        /\ IF o.crashed THEN Crash ELSE pc' = "cleanup" /\ UNCHANGED <<exitCode, mainResult>>
    /\ UNCHANGED <<result, driver, row_index, i>>
    /\ UNCHANGED renderVars

\* main, lines 393-396.
MainExit ==
    /\ pc = "cleanup"
    /\ Exit(EXIT_SUCCESS)
    /\ UNCHANGED <<mainResult, i>>
    /\ UNCHANGED buildVars /\ UNCHANGED renderVars

\* ------------------------------------------------------------- specifications
NoMem == <<>>
NoRub == [oob |-> FALSE, wrap |-> FALSE]

Init ==
    /\ pc = "start"
    /\ exitCode = -1
    /\ mainResult = "unset"
    /\ result = NoResult
    /\ heap = EmptyHeap
    /\ ub = NoUb
    /\ driver = NoDriver
    /\ i = 0
    /\ row_index = 0
    /\ bufferSize = 0
    /\ mem = NoMem
    /\ table = <<>>
    /\ rub = NoRub

Next ==
    \/ MainArgs \/ MainReadConfig \/ MainParse \/ MainPreset
    \/ ExecOpen \/ ExecAllocRecord \/ ExecAllocArrays \/ ExecColumn
    \/ ExecFetchRow \/ ExecCell
    \/ MainResult \/ PrintHeaders \/ PrintRow \/ PrintSummary
    \/ MainFree \/ MainExit

\* The whole program.
Spec == Init /\ [][Next]_vars

\* The ResultSet execute_mysql_query returns for the driver answer d.
BuiltResult(d) ==
    [rows_count |-> d.rows, cols_count |-> d.cols,
     ptr |-> [a \in ArrayNames |-> "ok"],
     elems |-> [a \in ArrayNames |->
        CASE a = "rows" ->
                [k \in 0..(d.rows * d.cols - 1) |->
                    LET v == DriverVal(d, k \div d.cols, k % d.cols)
                    IN SetSlot(IF v.present THEN v.text ELSE NULLTEXT)]
          [] a = "headers" -> [c \in 0..(d.cols - 1) |-> SetSlot(FieldName(d, c))]
          [] a = "mysql_types" ->
                [c \in 0..(d.cols - 1) |-> SetSlot(mysql_type_to_c_type(FieldType(d, c)).mysql_type)]
          [] OTHER ->
                [c \in 0..(d.cols - 1) |-> SetSlot(mysql_type_to_c_type(FieldType(d, c)).c_type)]]]

BuiltHeap(d) ==
    [live |-> {<<"rec", -1>>} \cup {<<a, -1>> : a \in ArrayNames}
                \cup {<<"rows", k>> : k \in 0..(d.rows * d.cols - 1)}
                \cup {<<a, c>> : a \in {"headers", "mysql_types", "c_types"},
                                 c \in 0..(d.cols - 1)},
     freed |-> {}, dfree |-> {}]

\* The renderer and what follows it in main, started where
\* execute_mysql_query has returned a ResultSet.
RenderInit ==
    /\ pc = "main_result"
    /\ exitCode = -1
    /\ mainResult = "ptr"
    /\ driver \in RenderDrivers
    /\ result = BuiltResult(driver)
    /\ heap = BuiltHeap(driver)
    /\ ub = NoUb
    /\ i = driver.cols
    /\ row_index = driver.rows
    /\ bufferSize = 0
    /\ mem = NoMem
    /\ table = <<>>
    /\ rub = NoRub

RenderNext ==
    \/ MainResult \/ PrintHeaders \/ PrintRow \/ PrintSummary
    \/ MainFree \/ MainExit

SpecRender == RenderInit /\ [][RenderNext]_vars

\* The builder returns exactly the states the renderer runs start from (for
\* the answers both are explored with).
BuilderReturnsBuilt ==
    (pc = "main_result" /\ mainResult = "ptr")
        => /\ result = BuiltResult(driver)
           /\ heap = BuiltHeap(driver)
           /\ i = driver.cols
           /\ row_index = driver.rows

\* ------------------------------------------------------------- claims
Finished == pc \in {"done", "crashed"}
Rendered == mainResult = "ptr" /\ pc \in {"free", "cleanup", "done"}
DataCells == { c \in UNION { {row.cells[k] : k \in DOMAIN row.cells} : row \in {table[k] : k \in DOMAIN table} } :
                 c.kind = "data" }
SourceText(c) == result.elems["rows"][c.row * result.cols_count + c.col].str

\* C1: the process exits with 0 only when the query succeeded and its
\* result was rendered; whenever execute_mysql_query returns no ResultSet,
\* main returns a nonzero exit code.
ExitZeroOnlyAfterRender ==
    (pc = "done" /\ exitCode = EXIT_SUCCESS) => mainResult = "ptr"

\* C2: when a header, type or cell strdup fails, the rollback never reads or
\* frees a header, type or cell slot that was not yet assigned.
RollbackTouchesOnlyAssigned ==
    ub.cause \in {"column", "cell"} => ~ub.readUnassigned

\* C3: when one of the four array allocations fails and rowCount and colCount
\* are positive, free_query_result completes without dereferencing an absent
\* array.
TeardownToleratesAbsentArrays ==
    (ub.cause = "arrays" /\ result.rows_count > 0 /\ result.cols_count > 0)
        => (~ub.nullDeref /\ pc # "crashed")

\* C4: at the end of every run of the builder and its caller, with or
\* without an allocation failure, every ResultSet buffer has been released
\* exactly once: none is outstanding and none was released twice.
EveryBufferReleasedOnce ==
    (Finished /\ ~rub.oob) => (heap.live = {} /\ heap.dfree = {})

\* The text the specification prescribes for a cell of text src under
\* computed width W.
PrescribedText(src, W) ==
    IF Len(src) > W - 1 THEN SubSeq(src, 1, W - 4) \o <<1, 1, 1>> ELSE src

\* C5: every displayed data cell, whatever was rendered through the buffer
\* before it, shows its first W-4 characters and "..." when its length
\* exceeds W-1, and its text unmodified otherwise.
CellsShowPrescribedText ==
    \A c \in DataCells : c.text = PrescribedText(SourceText(c), bufferSize)

\* C6: the text written for every data cell has at most W-1 characters and
\* stays, with its terminator, within the W-byte buffer, and the copy length
\* W-1-3 never wraps below zero.
CellsStayWithinBuffer ==
    /\ ~rub.oob
    /\ ~rub.wrap
    /\ \A c \in DataCells : Len(c.text) <= bufferSize - 1

\* The rows the specification prescribes after the header row (tag -1):
\* every row, or rows 0..4, the ellipsis row (tag -2) and the last five.
PrescribedRows(n) ==
    IF n <= 10 THEN [k \in 1..n |-> k - 1]
    ELSE <<0, 1, 2, 3, 4, -2, n - 5, n - 4, n - 3, n - 2, n - 1>>

\* C7: once rendering has completed, the rows emitted after the header are
\* rows 0..rowCount-1 when rowCount <= 10, and otherwise rows 0..4, one row
\* with "..." in every displayed column, and rows rowCount-5..rowCount-1.
RowSelection ==
    Rendered =>
        /\ [k \in DOMAIN table |-> table[k].tag]
              = <<-1>> \o PrescribedRows(result.rows_count)
        /\ \A k \in DOMAIN table :
              /\ table[k].tag = -2 =>
                    /\ Len(table[k].cells) = Len(table[1].cells)
                    /\ \A j \in DOMAIN table[k].cells :
                          table[k].cells[j].kind = "dots"
                          /\ table[k].cells[j].text = <<1, 1, 1>>
              /\ table[k].tag >= 0 =>
                    \A j \in DOMAIN table[k].cells :
                        table[k].cells[j].row = table[k].tag

RowSelectionWitness ==
    /\ pc = "done" /\ mainResult = "ptr" /\ ~rub.oob
    /\ result.rows_count = 11 /\ result.cols_count = 8
    /\ Len(table) = 12

\* The column sequence the specification prescribes (-1 is the marker).
PrescribedColumns(c) ==
    IF c <= 3 THEN [k \in 1..c |-> k - 1]
    ELSE <<0, 1, 2>> \o (IF c > 7 THEN <<-1>> ELSE <<>>)
                     \o (IF c > 4 THEN <<c - 4, c - 3, c - 2, c - 1>> ELSE <<>>)

\* C8: the header row, every data row and the ellipsis row show the same
\* column sequence, given by colCount alone: all columns up to 3; otherwise
\* columns 0..2, a marker "<<+N cols>>" with N = colCount-7 exactly when
\* colCount > 7, and the last four columns exactly when colCount > 4; at most
\* 8 entries.
ColumnSelection ==
    \A k \in DOMAIN table :
        LET cells == table[k].cells IN
        /\ [j \in DOMAIN cells |-> cells[j].col] = PrescribedColumns(result.cols_count)
        /\ Len(cells) <= 8
        /\ \A j \in DOMAIN cells :
              /\ (cells[j].col = -1 /\ k = 1) =>
                    (cells[j].kind = "marker" /\ cells[j].n = result.cols_count - 7)
              /\ (cells[j].col = -1 /\ k > 1) => cells[j].kind = "dots"
              /\ cells[j].col >= 0 =>
                    cells[j].kind = (IF k = 1 THEN "header"
                                     ELSE IF table[k].tag = -2 THEN "dots" ELSE "data")

ColumnSelectionWitness ==
    /\ result.cols_count = 8 /\ result.rows_count = 11
    /\ Len(table) = 12
    /\ Len(table[1].cells) = 8 /\ Len(table[7].cells) = 8 /\ Len(table[12].cells) = 8

\* C9: in every ResultSet execute_mysql_query returns, slot r*colCount+c
\* holds a copy of the driver's value for row r, column c, or the text
\* "NULL" when that value is absent; no slot is absent or unassigned.
ReturnedCellsAssigned ==
    mainResult = "ptr" =>
        /\ DOMAIN result.elems["rows"] = 0..(result.rows_count * result.cols_count - 1)
        /\ \A r \in 0..(driver.rows - 1), c \in 0..(driver.cols - 1) :
              LET slot == result.elems["rows"][r * result.cols_count + c]
                  v == DriverVal(driver, r, c)
              IN /\ slot.st = "set"
                 /\ slot.str = (IF v.present THEN v.text ELSE <<2, 3, 4, 4>>)

ReturnedCellsWitness ==
    /\ pc = "main_result" /\ mainResult = "ptr"
    /\ driver.rows = 2 /\ driver.cols = 3
    /\ <<0, 0>> \in driver.nulls
    /\ result.elems["rows"][0].str = <<2, 3, 4, 4>>
    /\ Len(result.elems["rows"][4].str) > 0

\* C10: no column is displayed more than once, and the number of columns
\* that are not displayed is the N of the marker column (0 without marker).
ColumnsAccountedOnce ==
    table # <<>> =>
        LET cells == table[1].cells
            shown == {j \in DOMAIN cells : cells[j].kind = "header"}
            markers == {j \in DOMAIN cells : cells[j].kind = "marker"}
            announced == IF markers = {} THEN 0 ELSE cells[CHOOSE j \in markers : TRUE].n
        IN /\ \A j1, j2 \in shown : cells[j1].col = cells[j2].col => j1 = j2
           /\ result.cols_count - Cardinality({cells[j].col : j \in shown}) = announced
====
